---- MODULE Spec2Model ----
(***************************************************************************)
(* A model of the notebooks of lustre-design-analysis:                     *)
(*   dom-sizing.ipynb     the binned file-size distribution and its        *)
(*                        rescaling to a target capacity;                  *)
(*   dir-size-dist.ipynb  the directory child-count histogram totals;      *)
(*   ssd-endurance-requirements.ipynb  the drive-writes-per-day the new    *)
(*                        file system's SSDs must sustain.                 *)
(* A notebook is a sequence of cells run top to bottom; each code cell is  *)
(* one action, and pc names the cell that runs next.                        *)
(*                                                                         *)
(* Numbers.  pandas/numpy float64 values are modelled as exact             *)
(* non-negative rationals <<n, d>> (d > 0, lowest terms) extended with the *)
(* two IEEE special values the cells can produce: NaN (0/0, inf*0) and     *)
(* +inf (x/0 with x > 0).  Rounding of float64 is not modelled, and the    *)
(* int64 columns (counts, bin extents and their products) stay far below   *)
(* 2^63 within the bounds, so they are plain integers here.                *)
(***************************************************************************)
EXTENDS Integers, Sequences, FiniteSets, TLC

\* ------------------------------------------------------------------ bounds
\* Largest number of bins of a histogram.
MaxBins == 3
\* Largest bin boundary (and largest inode size / child count scanned).
MaxBoundary == 2
\* Largest number of records in the source population.
MaxInodes == 2
\* TARGET_TOTAL_OST_CAPACITY ranges over k/2 for k in 0..MaxTargetHalves.
MaxTargetHalves == 4
\* Largest number of runs of dom-sizing.ipynb over one input database.
MaxRuns == 2
\* PARAM_SSI_LOW and PARAM_SSI_HIGH range over 1..MaxSSI.
MaxSSI == 3
\* Largest number of rows of the entries table and of the names table.
MaxRows == 2

\* ------------------------------------------------- float64 (exact) values
NaN == <<0, 0>>
Inf == <<1, 0>>
Zero == <<0, 1>>
One == <<1, 1>>

RECURSIVE GCD(_, _)
GCD(a, b) == IF b = 0 THEN a ELSE GCD(b, a % b)

Norm(n, d) ==
    IF d = 0 THEN (IF n = 0 THEN NaN ELSE Inf)
    ELSE LET g == GCD(n, d) IN <<n \div g, d \div g>>

F(i) == <<i, 1>>

IsNaN(x) == x = NaN
IsInf(x) == x = Inf

FMul(a, b) ==
    IF IsNaN(a) \/ IsNaN(b) THEN NaN
    ELSE IF IsInf(a) \/ IsInf(b)
         THEN (IF a = Zero \/ b = Zero THEN NaN ELSE Inf)
    ELSE Norm(a[1] * b[1], a[2] * b[2])

FDiv(a, b) ==
    IF IsNaN(a) \/ IsNaN(b) THEN NaN
    ELSE IF IsInf(a) THEN (IF IsInf(b) THEN NaN ELSE Inf)
    ELSE IF IsInf(b) THEN Zero
    ELSE IF b[1] = 0 THEN (IF a[1] = 0 THEN NaN ELSE Inf)
    ELSE Norm(a[1] * b[2], a[2] * b[1])

FAdd(a, b) ==
    IF IsNaN(a) \/ IsNaN(b) THEN NaN
    ELSE IF IsInf(a) \/ IsInf(b) THEN Inf
    ELSE LET g == GCD(a[2], b[2])
         IN  Norm(a[1] * (b[2] \div g) + b[1] * (a[2] \div g), (a[2] \div g) * b[2])

\* a <= b as float64 compares: False whenever an operand is NaN.
FLe(a, b) ==
    /\ ~IsNaN(a)
    /\ ~IsNaN(b)
    /\ \/ IsInf(b)
       \/ /\ ~IsInf(a)
          /\ LET g == GCD(a[2], b[2])
             IN  IF a[1] \div a[2] # b[1] \div b[2]
                 THEN a[1] \div a[2] < b[1] \div b[2]
                 ELSE (a[1] % a[2]) * (b[2] \div g) <= (b[1] % b[2]) * (a[2] \div g)

\* Python's max(1, x) on a bin extent (an integer).
Max1(x) == IF FLe(One, x) THEN x ELSE One

\* DataFrame.max(axis=1) over two columns: NaN entries are skipped.
FMax(a, b) ==
    IF IsNaN(a) THEN b
    ELSE IF IsNaN(b) THEN a
    ELSE IF FLe(a, b) THEN b ELSE a

\* pandas Series.fillna(0.0), element by element.
fillna(x) == IF IsNaN(x) THEN Zero ELSE x

\* pandas Series.sum(): NaN entries are skipped (skipna=True), an empty or
\* all-NaN series sums to 0.
RECURSIVE SumFrom(_, _)
SumFrom(s, i) ==
    IF i > Len(s) THEN Zero
    ELSE IF IsNaN(s[i]) THEN SumFrom(s, i + 1)
    ELSE FAdd(s[i], SumFrom(s, i + 1))

SeriesSum(s) == SumFrom(s, 1)

\* Series.sum() of an integer column.
RECURSIVE IntSumFrom(_, _)
IntSumFrom(s, i) == IF i > Len(s) THEN 0 ELSE s[i] + IntSumFrom(s, i + 1)

IntSum(s) == IntSumFrom(s, 1)

\* ------------------------------------------------------ program constants
INODE_TYPES == <<"files", "dirs", "symlinks", "blks", "chrs", "fifos", "socks">>
NON_FILE_INODE_TYPES == Tail(INODE_TYPES)
REDUCTIONS == <<"min", "max", "ave">>
TOTAL_DIRS == 99443114
LUSTRE_BYTES_PER_INODE == 4096

Range(s) == {s[i] : i \in 1..Len(s)}
InodeTypes == Range(INODE_TYPES)
NonFileTypes == Range(NON_FILE_INODE_TYPES)
Reductions == Range(REDUCTIONS)

\* The count column of the directory child-count histogram.
ChildCounts == "child_counts"
Columns == InodeTypes \cup {ChildCounts}

\* The inode types the bounded source populations hold records of; the other
\* non-file types go through the same loops with all-zero columns.
ScanTypes == {"files", "dirs"}

\* --------------------------------------------------------------- inputs
\* Bin upper boundaries: strictly increasing sequences of naturals.
BoundarySeqs ==
    {s \in UNION {[1..n -> 0..MaxBoundary] : n \in 1..MaxBins} :
        \A i \in 1..(Len(s) - 1) : s[i] < s[i + 1]}

Targets == {Norm(k, 2) : k \in 0..MaxTargetHalves}

VARIABLES
    notebook,       \* which notebook this run executes
    pc,             \* the cell that runs next
    index,          \* bin_size: the histogram's index (bin upper boundaries)
    histogram,      \* the histogram table: count column -> per-bin counts
    population,     \* number of source records per count column
    TARGET_TOTAL_OST_CAPACITY,
    reference_df,   \* num_<itype> columns of reference_df
    bin_extent,     \* bin_extent_<redux> columns of reference_df
    inode_totals,   \* the per-type inode totals the summary cell prints
    mass_dist,      \* dmass_<redux>
    mass_dist_sums, \* dmass_<redux> -> total
    prob_dist,      \* dmass_<redux>
    new_mass_dist,  \* dmass_<redux>
    newfs_df,       \* num_<itype>_<redux>
    series,         \* dir-size-dist: num_child_counts
    NONEMPTY_DIRS,  \* dir-size-dist: series.sum()
    EMPTY_DIRS,     \* dir-size-dist: TOTAL_DIRS - NONEMPTY_DIRS as printed
    inode_mass,     \* redux -> calculate_inode_mass(newfs_df, redux, redux)
    new_mdt,        \* <kind>_mass_<redux> columns of new_mdt
    dom_capacity,   \* the ymin / yave / ymax curves handed to plot_dom_capacity
    cached_histogram, \* the file at path cached_histogram: Absent or its table
    db_queries,     \* how many times the input database has been queried
    cache_writes,   \* how many times the cache file has been written
    run,            \* the number of this run of dom-sizing.ipynb
    PARAM,          \* ssd-endurance: the PARAM_<name> settings (None if unset)
    PARAM_BIGC_NEW, \* ssd-endurance: "LOW" / "HIGH" -> capacity of the new system
    DWPD_NEW,       \* ssd-endurance: "LOW" / "HIGH" -> required drive writes per day
    orig_db,        \* generate_dirdist_hist.sh: $1, "" when no argument is given
    entries,        \* the entries table of $orig_db: id -> number of rows
    names,          \* the names table of $orig_db: <<parent_id, id>> -> number of rows
    dirdist_db,     \* the file <basename>_dirdist.sqlite
    csv_file,       \* the file <basename>_dirdist_hist.csv
    status,         \* $?: the exit status of the script once pc = "exit"
    sqlite3_calls   \* sqlite3 commands this run of the script has started

vars == <<notebook, pc, index, histogram, population, TARGET_TOTAL_OST_CAPACITY,
          reference_df, bin_extent, inode_totals, mass_dist, mass_dist_sums,
          prob_dist, new_mass_dist, newfs_df, series, NONEMPTY_DIRS, EMPTY_DIRS,
          inode_mass, new_mdt, dom_capacity, cached_histogram, db_queries,
          cache_writes, run, PARAM, PARAM_BIGC_NEW, DWPD_NEW,
          orig_db, entries, names, dirdist_db, csv_file, status, sqlite3_calls>>

NBins == Len(index)
Bins == 1..NBins

EmptyFrame == [r \in Reductions |-> <<>>]
ZeroCounts(n) == [b \in 1..n |-> 0]

\* ------------------------------------------------ Histogram Builder (4.2)
\* The bin of a size: the lowest bin whose upper boundary is not below it.
BinOf(idx, size) == CHOOSE b \in 1..Len(idx) :
    /\ size <= idx[b]
    /\ \A c \in 1..(b - 1) : size > idx[c]

\* Mutant: a record that arrives after an odd number of records of its
\* column is counted in the lowest bin.
AddRecord_ByArrival(hist, idx, col, size) ==
    [hist EXCEPT ![col][IF IntSum(hist[col]) % 2 = 1 THEN 1 ELSE BinOf(idx, size)] = @ + 1]

\* One more record of the source table is counted in its bin.
AddRecord(hist, idx, col, size) ==
    [hist EXCEPT ![col][BinOf(idx, size)] = @ + 1]

TotalPopulation == IntSum([i \in 1..Len(INODE_TYPES) |-> population[INODE_TYPES[i]]])
                   + population[ChildCounts]

ScanColumns == IF notebook = "dom-sizing" THEN ScanTypes ELSE {ChildCounts}
\* Inode sizes start at 0; a directory in child_counts has at least one child.
ScanSizes == IF notebook = "dom-sizing" THEN 0..index[NBins] ELSE 1..index[NBins]

pipeline_vars == <<TARGET_TOTAL_OST_CAPACITY, reference_df, bin_extent, inode_totals,
                   mass_dist, mass_dist_sums, prob_dist, new_mass_dist, newfs_df>>
dirs_vars == <<series, NONEMPTY_DIRS, EMPTY_DIRS>>
mdt_vars == <<inode_mass, new_mdt, dom_capacity>>
cache_vars == <<cached_histogram, db_queries, cache_writes, run>>
endurance_vars == <<PARAM, PARAM_BIGC_NEW, DWPD_NEW>>
source_db == <<orig_db, entries, names>>
script_vars == <<source_db, dirdist_db, csv_file, status, sqlite3_calls>>

\* No file exists at the path cached_histogram.
Absent == <<>>

\* The source database is populated before the first run caches its table.
HistogramScan(col, size) ==
    /\ pc = "histogram"
    /\ cached_histogram = Absent
    /\ TotalPopulation < MaxInodes
    /\ col \in ScanColumns
    /\ size \in ScanSizes
    /\ histogram' = AddRecord(histogram, index, col, size)
    /\ population' = [population EXCEPT ![col] = @ + 1]
    /\ UNCHANGED <<script_vars, notebook, pc, index, pipeline_vars, dirs_vars, mdt_vars, cache_vars,
                   endurance_vars>>

\* --------------------------------------------------------- dom-sizing.ipynb
\* Mutant: the cache file is never found.
CacheFilePresent_Never == FALSE

\* os.path.isfile(cached_histogram)
CacheFilePresent == cached_histogram # Absent

\* reference_df = pandas.read_csv(cached_histogram, index_col='bin_size')
ReadCachedHistogram ==
    /\ notebook = "dom-sizing"
    /\ pc = "histogram"
    /\ CacheFilePresent
    /\ reference_df' = [t \in InodeTypes |-> cached_histogram[t]]
    /\ pc' = "bin_extents"
    /\ UNCHANGED <<script_vars, notebook, index, histogram, population, TARGET_TOTAL_OST_CAPACITY,
                   bin_extent, inode_totals, mass_dist, mass_dist_sums, prob_dist,
                   new_mass_dist, newfs_df, dirs_vars, mdt_vars, cache_vars,
                   endurance_vars>>

\* conn = sqlite3.connect(INPUT_DB_FILE)
\* reference_df = histogram.histogram_dataframe(conn, INODE_TYPES)
\* reference_df.to_csv(cached_histogram)
GenerateHistogram ==
    /\ notebook = "dom-sizing"
    /\ pc = "histogram"
    /\ ~CacheFilePresent
    /\ db_queries' = db_queries + 1
    /\ reference_df' = [t \in InodeTypes |-> histogram[t]]
    /\ cached_histogram' = [t \in InodeTypes |-> histogram[t]]
    /\ cache_writes' = cache_writes + 1
    /\ pc' = "bin_extents"
    /\ UNCHANGED <<script_vars, notebook, index, histogram, population, TARGET_TOTAL_OST_CAPACITY,
                   bin_extent, inode_totals, mass_dist, mass_dist_sums, prob_dist,
                   new_mass_dist, newfs_df, dirs_vars, mdt_vars, run, endurance_vars>>

\* Mutant: the lower extents without the + 1 (half-open bins).
BinExtentMin_NoPlusOne(idx) == <<0, 2>> \o [i \in 1..(Len(idx) - 2) |-> idx[i + 1]]

\* numpy.concatenate((numpy.array([0, 2]), index[1:-1].values + 1))
BinExtentMin(idx) == <<0, 2>> \o [i \in 1..(Len(idx) - 2) |-> idx[i + 1] + 1]

BinExtentMax(idx) == idx

BinExtentAve(emin, emax) == [b \in 1..Len(emax) |-> Norm(emin[b] + emax[b], 2)]

ToFloats(s) == [b \in 1..Len(s) |-> F(s[b])]

\* Assigning a column whose length differs from the frame's raises ValueError.
ComputeBinExtents ==
    /\ notebook = "dom-sizing"
    /\ pc = "bin_extents"
    /\ Len(BinExtentMin(index)) = NBins
    /\ bin_extent' = [r \in Reductions |->
                        IF r = "min" THEN ToFloats(BinExtentMin(index))
                        ELSE IF r = "max" THEN ToFloats(BinExtentMax(index))
                        ELSE BinExtentAve(BinExtentMin(index), BinExtentMax(index))]
    /\ pc' = "inode_totals"
    /\ UNCHANGED <<script_vars, notebook, index, histogram, population, TARGET_TOTAL_OST_CAPACITY,
                   reference_df, inode_totals, mass_dist, mass_dist_sums, prob_dist,
                   new_mass_dist, newfs_df, dirs_vars, mdt_vars, cache_vars,
                   endurance_vars>>

BinExtentsLengthMismatch ==
    /\ notebook = "dom-sizing"
    /\ pc = "bin_extents"
    /\ Len(BinExtentMin(index)) # NBins
    /\ pc' = "ValueError"
    /\ UNCHANGED <<script_vars, notebook, index, histogram, population, pipeline_vars, dirs_vars, mdt_vars, cache_vars,
                   endurance_vars>>

\* reference_df[itype].sum() for every num_ column.
InodeTotal(itype) == IntSum(reference_df[itype])

PrintInodeTotals ==
    /\ notebook = "dom-sizing"
    /\ pc = "inode_totals"
    /\ inode_totals' = [t \in InodeTypes |-> InodeTotal(t)]
    /\ pc' = "mass_dist"
    /\ UNCHANGED <<script_vars, notebook, index, histogram, population, TARGET_TOTAL_OST_CAPACITY,
                   reference_df, bin_extent, mass_dist, mass_dist_sums, prob_dist,
                   new_mass_dist, newfs_df, dirs_vars, mdt_vars, cache_vars,
                   endurance_vars>>

\* (reference_df['num_files'] * reference_df['bin_extent_%s' % redux]).fillna(0.0)
DMass(num_files, extent) ==
    [b \in 1..Len(num_files) |-> fillna(FMul(F(num_files[b]), extent[b]))]

ComputeMassDist ==
    /\ notebook = "dom-sizing"
    /\ pc = "mass_dist"
    /\ mass_dist' = [r \in Reductions |-> DMass(reference_df["files"], bin_extent[r])]
    /\ pc' = "prob_dist"
    /\ UNCHANGED <<script_vars, notebook, index, histogram, population, TARGET_TOTAL_OST_CAPACITY,
                   reference_df, bin_extent, inode_totals, mass_dist_sums, prob_dist,
                   new_mass_dist, newfs_df, dirs_vars, mdt_vars, cache_vars,
                   endurance_vars>>

\* Mutant: min and max are not swapped.
invert_redux_Identity(redux) == redux

\* Mutant: only min is inverted, so max stays max.
invert_redux_MinOnly(redux) == IF redux = "min" THEN "max" ELSE redux

invert_redux(redux) ==
    IF redux = "min" THEN "max"
    ELSE IF redux = "max" THEN "min"
    ELSE redux

MassDistSums(md) == [r \in Reductions |-> SeriesSum(md[r])]

\* Mutant: every convention is divided by its own total.
ProbDist_OwnTotal(md, sums) ==
    [r \in Reductions |-> [b \in 1..Len(md[r]) |-> FDiv(md[r][b], sums[r])]]

\* mass_dist["dmass_" + redux] / mass_dist_sums["dmass_" + invert_redux(redux)]
ProbDist(md, sums) ==
    [r \in Reductions |->
        [b \in 1..Len(md[r]) |-> FDiv(md[r][b], sums[invert_redux(r)])]]

ComputeProbDist ==
    /\ notebook = "dom-sizing"
    /\ pc = "prob_dist"
    /\ mass_dist_sums' = MassDistSums(mass_dist)
    /\ prob_dist' = ProbDist(mass_dist, MassDistSums(mass_dist))
    /\ pc' = "new_mass_dist"
    /\ UNCHANGED <<script_vars, notebook, index, histogram, population, TARGET_TOTAL_OST_CAPACITY,
                   reference_df, bin_extent, inode_totals, mass_dist, new_mass_dist,
                   newfs_df, dirs_vars, mdt_vars, cache_vars,
                   endurance_vars>>

\* prob_dist[mass_type + '_' + redux] * TARGET_TOTAL_OST_CAPACITY
NewMassDist(pd, target) ==
    [r \in Reductions |-> [b \in 1..Len(pd[r]) |-> FMul(pd[r][b], target)]]

ComputeNewMassDist ==
    /\ notebook = "dom-sizing"
    /\ pc = "new_mass_dist"
    /\ new_mass_dist' = NewMassDist(prob_dist, TARGET_TOTAL_OST_CAPACITY)
    /\ pc' = "num_files"
    /\ UNCHANGED <<script_vars, notebook, index, histogram, population, TARGET_TOTAL_OST_CAPACITY,
                   reference_df, bin_extent, inode_totals, mass_dist, mass_dist_sums,
                   prob_dist, newfs_df, dirs_vars, mdt_vars, cache_vars,
                   endurance_vars>>

\* Mutant: the average count is divided by bin_extent_max too.
NumFilesDivisor_AveByMax(redux, ext, b) ==
    IF redux = "max" THEN Max1(ext["min"][b]) ELSE ext["max"][b]

\* Mutant: every convention is divided by its own extent.
NumFilesDivisor_OwnExtent(redux, ext, b) == ext[redux][b]

\* The divisor of the count of each convention.
NumFilesDivisor(redux, ext, b) ==
    IF redux = "min" THEN ext["max"][b]
    ELSE IF redux = "max" THEN Max1(ext["min"][b])
    ELSE ext["ave"][b]

\* Mutant: the .fillna(0.0) is left out.
NumFiles_WithoutFillna(nmd, ext) ==
    [r \in Reductions |->
        [b \in 1..Len(nmd[r]) |-> FDiv(nmd[r][b], NumFilesDivisor(r, ext, b))]]

NumFiles(nmd, ext) ==
    [r \in Reductions |->
        [b \in 1..Len(nmd[r]) |-> fillna(FDiv(nmd[r][b], NumFilesDivisor(r, ext, b)))]]

ComputeNumFiles ==
    /\ notebook = "dom-sizing"
    /\ pc = "num_files"
    /\ newfs_df' = [newfs_df EXCEPT !["files"] = NumFiles(new_mass_dist, bin_extent)]
    /\ pc' = "num_nonfiles"
    /\ UNCHANGED <<script_vars, notebook, index, histogram, population, TARGET_TOTAL_OST_CAPACITY,
                   reference_df, bin_extent, inode_totals, mass_dist, mass_dist_sums,
                   prob_dist, new_mass_dist, dirs_vars, mdt_vars, cache_vars,
                   endurance_vars>>

\* (newfs_df['num_files_' + redux] * reference_df['num_' + itype]
\*      / reference_df['num_files']).fillna(0.0)
NumNonFile(files_redux, num_itype, num_files) ==
    [b \in 1..Len(files_redux) |->
        fillna(FDiv(FMul(files_redux[b], F(num_itype[b])), F(num_files[b])))]

ComputeNumNonFiles ==
    /\ notebook = "dom-sizing"
    /\ pc = "num_nonfiles"
    /\ newfs_df' = [t \in InodeTypes |->
                      IF t = "files" THEN newfs_df["files"]
                      ELSE [r \in Reductions |->
                              NumNonFile(newfs_df["files"][r], reference_df[t],
                                         reference_df["files"])]]
    /\ pc' = "inode_mass"
    /\ UNCHANGED <<script_vars, notebook, index, histogram, population, TARGET_TOTAL_OST_CAPACITY,
                   reference_df, bin_extent, inode_totals, mass_dist, mass_dist_sums,
                   prob_dist, new_mass_dist, dirs_vars, mdt_vars, cache_vars,
                   endurance_vars>>

\* (~(df[key + '_min'] <= df[key + '_max'])).sum()
invalid_minmax_df(df, key) ==
    Cardinality({b \in 1..Len(df[key]["min"]) : ~FLe(df[key]["min"][b], df[key]["max"][b])})

\* Mutant: the per-inode floor is left out.
NonFileInodeMass_WithoutFloor(count, extent) == FMul(count, extent)

\* _tmp_df.max(axis=1): the larger of count * bin_extent_<redux> and
\* count * LUSTRE_BYTES_PER_INODE.
NonFileInodeMass(count, extent) ==
    FMax(FMul(count, extent), FMul(count, F(LUSTRE_BYTES_PER_INODE)))

\* ret += _tmp_df.max(axis=1), for itype in NON_FILE_INODE_TYPES[i..].
RECURSIVE AddNonFileInodeMass(_, _, _, _, _, _)
AddNonFileInodeMass(ret, input_df, redux, minmax, b, i) ==
    IF i > Len(NON_FILE_INODE_TYPES) THEN ret
    ELSE AddNonFileInodeMass(
             FAdd(ret, NonFileInodeMass(input_df[NON_FILE_INODE_TYPES[i]][minmax][b],
                                        bin_extent[redux][b])),
             input_df, redux, minmax, b, i + 1)

\* Mutant: the file inodes are left out of the inode mass.
FileInodeMass_Nothing(count) == Zero

\* input_df['num_files' + suffix] * LUSTRE_BYTES_PER_INODE
FileInodeMass(count) == FMul(count, F(LUSTRE_BYTES_PER_INODE))

\* calculate_inode_mass(input_df, redux, minmax) with a minmax suffix.
calculate_inode_mass(input_df, redux, minmax) ==
    SeriesSum([b \in Bins |->
        fillna(AddNonFileInodeMass(FileInodeMass(input_df["files"][minmax][b]),
                                   input_df, redux, minmax, b, 1))])

ComputeInodeMass ==
    /\ notebook = "dom-sizing"
    /\ pc = "inode_mass"
    /\ inode_mass' = [r \in Reductions |-> calculate_inode_mass(newfs_df, r, r)]
    /\ pc' = "new_mdt"
    /\ UNCHANGED <<script_vars, notebook, index, histogram, population, pipeline_vars, dirs_vars,
                   new_mdt, dom_capacity, cache_vars, endurance_vars>>

\* Mutant: the bin itself is left out of the whole-file sum.
WholeFileMass_Exclusive(dmass, iloc) == SeriesSum(SubSeq(dmass, 1, iloc - 1))

\* new_mass_dist['dmass_' + redux].iloc[0:iloc+1].sum(); bins count from 1 here.
WholeFileMass(dmass, iloc) == SeriesSum(SubSeq(dmass, 1, iloc))

\* newfs_df['num_files_' + redux].iloc[iloc+1:].sum()
\*     * reference_df['bin_extent_max'].iloc[iloc]
FirstStripeMass(num_files, extent_max, iloc) ==
    FMul(SeriesSum(SubSeq(num_files, iloc + 1, Len(num_files))), extent_max[iloc])

MdtKinds == {"whole_file_mass", "first_stripe_mass", "total_dom_mass"}

ComputeNewMdt ==
    /\ notebook = "dom-sizing"
    /\ pc = "new_mdt"
    /\ new_mdt' =
          [k \in MdtKinds |-> [r \in Reductions |-> [b \in Bins |->
              LET whole == WholeFileMass(new_mass_dist[r], b)
                  first == FirstStripeMass(newfs_df["files"][r], bin_extent["max"], b)
              IN  IF k = "whole_file_mass" THEN whole
                  ELSE IF k = "first_stripe_mass" THEN first
                  ELSE FAdd(whole, first)]]]
    /\ pc' = "plot_dom_capacity"
    /\ UNCHANGED <<script_vars, notebook, index, histogram, population, pipeline_vars, dirs_vars,
                   inode_mass, dom_capacity, cache_vars, endurance_vars>>

\* new_mdt['total_dom_mass_' + redux].values + inode_mass[redux]
DomCapacity(total_dom_mass, imass) ==
    [b \in 1..Len(total_dom_mass) |-> FAdd(total_dom_mass[b], imass)]

PlotDomCapacity ==
    /\ notebook = "dom-sizing"
    /\ pc = "plot_dom_capacity"
    /\ dom_capacity' = [r \in Reductions |->
                          DomCapacity(new_mdt["total_dom_mass"][r], inode_mass[r])]
    /\ pc' = "done"
    /\ UNCHANGED <<script_vars, notebook, index, histogram, population, pipeline_vars, dirs_vars,
                   inode_mass, new_mdt, cache_vars, endurance_vars>>

\* A later run of the notebook over the same input database: a fresh kernel,
\* with the files of the earlier runs left where they are.
NewRun ==
    /\ notebook = "dom-sizing"
    /\ pc \in {"done", "ValueError"}
    /\ run < MaxRuns
    /\ run' = run + 1
    /\ pc' = "histogram"
    /\ reference_df' = [t \in InodeTypes |-> <<>>]
    /\ bin_extent' = EmptyFrame
    /\ inode_totals' = [t \in InodeTypes |-> 0]
    /\ mass_dist' = EmptyFrame
    /\ mass_dist_sums' = [r \in Reductions |-> Zero]
    /\ prob_dist' = EmptyFrame
    /\ new_mass_dist' = EmptyFrame
    /\ newfs_df' = [t \in InodeTypes |-> EmptyFrame]
    /\ inode_mass' = [r \in Reductions |-> Zero]
    /\ new_mdt' = [k \in MdtKinds |-> EmptyFrame]
    /\ dom_capacity' = EmptyFrame
    /\ UNCHANGED <<script_vars, notebook, index, histogram, population, TARGET_TOTAL_OST_CAPACITY,
                   dirs_vars, cached_histogram, db_queries, cache_writes,
                   endurance_vars>>

\* ------------------------------------------------------ dir-size-dist.ipynb
\* series = pandas.read_csv(..., index_col='bin_size')['num_child_counts']
ReadSeries ==
    /\ notebook = "dir-size-dist"
    /\ pc = "histogram"
    /\ series' = histogram[ChildCounts]
    /\ pc' = "dir_totals"
    /\ UNCHANGED <<script_vars, notebook, index, histogram, population, pipeline_vars,
                   NONEMPTY_DIRS, EMPTY_DIRS, mdt_vars, cache_vars, endurance_vars>>

\* Mutant: the lowest bin is left out of the sum.
NonEmptyDirs_SkipLowestBin(s) == IntSum(Tail(s))

NonEmptyDirs(s) == IntSum(s)

ComputeDirTotals ==
    /\ notebook = "dir-size-dist"
    /\ pc = "dir_totals"
    /\ NONEMPTY_DIRS' = NonEmptyDirs(series)
    /\ EMPTY_DIRS' = TOTAL_DIRS - NonEmptyDirs(series)
    /\ pc' = "done"
    /\ UNCHANGED <<script_vars, notebook, index, histogram, population, pipeline_vars, series,
                   mdt_vars, cache_vars, endurance_vars>>

\* ------------------------------------------ ssd-endurance-requirements.ipynb
\* A parameter that is set to None.
None == <<>>

ParamNames == {"SSI_LOW", "SSI_HIGH", "CHI", "N_REF", "C_REF", "R_REF", "N_NEW", "C_NEW",
               "R_NEW_LOW", "R_NEW_HIGH", "FSWPD", "WAF_LOW", "WAF_HIGH"}
Brackets == {"LOW", "HIGH"}

\* The literal 133116697694451.58 (bytes/day) of the fallback branch.  Byte
\* capacities of this notebook are counted in units of that literal.
DailyGrowth == One

\* None in (PARAM_CHI, PARAM_N_NEW, PARAM_C_NEW, PARAM_R_NEW_LOW, PARAM_R_NEW_HIGH)
CapacityUndefined(P) ==
    \E k \in {"CHI", "N_NEW", "C_NEW", "R_NEW_LOW", "R_NEW_HIGH"} : P[k] = None

\* Mutant: the derived capacity is the target of dom-sizing.ipynb.
DerivedCapacity_FromTarget(ssi) == TARGET_TOTAL_OST_CAPACITY

\* Mutant: the derived capacity does not grow with the SSI.
DerivedCapacity_WithoutSsi(ssi) == FMul(FDiv(F(28), Norm(1, 2)), DailyGrowth)

\* PARAM_SSI_<b> * 28 / 0.5 * 133116697694451.58
DerivedCapacity(ssi) == FMul(FDiv(FMul(ssi, F(28)), Norm(1, 2)), DailyGrowth)

\* PARAM_CHI * PARAM_R_NEW_<b> * PARAM_N_NEW * PARAM_C_NEW
DriveCapacity(P, r_new) == FMul(FMul(FMul(P["CHI"], r_new), P["N_NEW"]), P["C_NEW"])

DeriveBigCNew ==
    /\ notebook = "ssd-endurance"
    /\ pc = "bigc_new"
    /\ CapacityUndefined(PARAM)
    /\ PARAM_BIGC_NEW' = [b \in Brackets |-> DerivedCapacity(PARAM["SSI_" \o b])]
    /\ pc' = "dwpd_new"
    /\ UNCHANGED <<script_vars, notebook, index, histogram, population, pipeline_vars, dirs_vars,
                   mdt_vars, cache_vars, PARAM, DWPD_NEW>>

ComputeBigCNew ==
    /\ notebook = "ssd-endurance"
    /\ pc = "bigc_new"
    /\ ~CapacityUndefined(PARAM)
    /\ PARAM_BIGC_NEW' = [b \in Brackets |-> DriveCapacity(PARAM, PARAM["R_NEW_" \o b])]
    /\ pc' = "dwpd_new"
    /\ UNCHANGED <<script_vars, notebook, index, histogram, population, pipeline_vars, dirs_vars,
                   mdt_vars, cache_vars, PARAM, DWPD_NEW>>

\* Mutant: the write amplification factor is left out.
DwpdNew_WithoutWaf(P, ssi, waf, bigc_new) ==
    FDiv(FMul(FMul(FMul(FMul(ssi, P["FSWPD"]), P["R_REF"]), P["N_REF"]), P["C_REF"]),
         bigc_new)

\* PARAM_SSI_<b> * PARAM_FSWPD * PARAM_WAF_<b> * PARAM_R_REF * PARAM_N_REF
\*     * PARAM_C_REF / PARAM_BIGC_NEW_<b>
DwpdNew(P, ssi, waf, bigc_new) ==
    FDiv(FMul(FMul(FMul(FMul(FMul(ssi, P["FSWPD"]), waf), P["R_REF"]), P["N_REF"]),
              P["C_REF"]),
         bigc_new)

ComputeDwpdNew ==
    /\ notebook = "ssd-endurance"
    /\ pc = "dwpd_new"
    /\ DWPD_NEW' = [b \in Brackets |->
                      DwpdNew(PARAM, PARAM["SSI_" \o b], PARAM["WAF_" \o b],
                              PARAM_BIGC_NEW[b])]
    /\ pc' = "done"
    /\ UNCHANGED <<script_vars, notebook, index, histogram, population, pipeline_vars, dirs_vars,
                   mdt_vars, cache_vars, PARAM, PARAM_BIGC_NEW>>

\* ------------------------------------------- bin/generate_dirdist_hist.sh
\* Tables are bags of rows: a row's columns -> how many such rows the table
\* holds.  Of an entries row only the id is kept (size and type are copied
\* into dirdist and take no part in the counting).
Null == "NULL"
InodeIds == {"0x1", "0x2"}
IdValues == InodeIds \cup {Null}
NameKeys == IdValues \X IdValues

RECURSIVE RowCount(_, _)
RowCount(table, keys) ==
    IF keys = {} THEN 0
    ELSE LET k == CHOOSE k \in keys : TRUE
         IN  table[k] + RowCount(table, keys \ {k})

\* The table that holds the rows of a sequence.
TableOf(rows, keys) ==
    [k \in keys |-> Cardinality({i \in DOMAIN rows : rows[i] = k})]

\* Every table of at most MaxRows rows.
Tables(keys) ==
    {TableOf(rows, keys) : rows \in UNION {[1..n -> keys] : n \in 0..MaxRows}}
NoRows(keys) == [k \in keys |-> 0]

\* No file at the path.
NoFile == [exists |-> FALSE, tables |-> {}, dirdist |-> NoRows(NameKeys),
           child_counts |-> {}]
NoCsv == [exists |-> FALSE, rows |-> <<>>]

\* Mutant: an empty argument is not noticed.
NoArgument_Never(arg) == FALSE

\* [ -z "$orig_db" ]
NoArgument(arg) == arg = ""

\* Mutant: an existing file is not noticed.
DirdistExists_Never(file) == FALSE

\* [ -f $dirdist_db ]
DirdistExists(file) == file.exists

\* SELECT names.parent_id, entries.id, ... FROM entries INNER JOIN names
\*     ON entries.id = names.id
\* A NULL id equals nothing, itself included.
InnerJoin(e, n) ==
    [k \in NameKeys |-> IF k[2] = Null THEN 0 ELSE n[k] * e[k[2]]]

\* The parent_id values of the rows of dirdist.
Parents(dd) == {k[1] : k \in {j \in NameKeys : dd[j] > 0}}

\* Mutant: count(DISTINCT id).
CountId_Distinct(dd, parent_id) ==
    Cardinality({i \in InodeIds : dd[<<parent_id, i>>] > 0})

\* count(id) of the group of parent_id: its rows whose id is not NULL.
CountId(dd, parent_id) ==
    RowCount(dd, {k \in NameKeys : k[1] = parent_id /\ k[2] # Null})

\* SELECT parent_id, count(id) FROM dirdist GROUP BY parent_id
GroupByParent(dd) == {<<p, CountId(dd, p)>> : p \in Parents(dd)}

\* Upper boundaries of the bins histogram.py counts child_counts.count in.
CountBins == <<1, 2, 4, 8, 16>>

\* histogram.py -t child_counts -c count: the rows it prints, one per bin.
CountHistogram(cc) ==
    [b \in 1..Len(CountBins) |->
        Cardinality({row \in cc : BinOf(CountBins, row[2]) = b})]

\* The exit status of first | last without pipefail: that of last.
PipelineStatus(first, last) == last

notebook_vars == <<index, histogram, population, pipeline_vars, dirs_vars, mdt_vars,
                   cached_histogram, db_queries, cache_writes, endurance_vars>>

Script == notebook = "generate_dirdist_hist.sh"

\* Lines 16-19: no argument.
ExitSyntax ==
    /\ Script
    /\ pc = "start"
    /\ NoArgument(orig_db)
    /\ status' = 1
    /\ pc' = "exit"
    /\ UNCHANGED <<notebook, notebook_vars, run, source_db, dirdist_db, csv_file,
                   sqlite3_calls>>

\* Lines 15-21: an argument is given.
DeriveDirdistDb ==
    /\ Script
    /\ pc = "start"
    /\ ~NoArgument(orig_db)
    /\ pc' = "exists_check"
    /\ UNCHANGED <<notebook, notebook_vars, run, script_vars>>

\* Lines 22-24.
ExitDirdistExists ==
    /\ Script
    /\ pc = "exists_check"
    /\ DirdistExists(dirdist_db)
    /\ status' = 1
    /\ pc' = "exit"
    /\ UNCHANGED <<notebook, notebook_vars, run, source_db, dirdist_db, csv_file,
                   sqlite3_calls>>

\* Lines 25-27.
AnnounceDirdistDb ==
    /\ Script
    /\ pc = "exists_check"
    /\ ~DirdistExists(dirdist_db)
    /\ pc' = "join"
    /\ UNCHANGED <<notebook, notebook_vars, run, script_vars>>

\* Lines 29-34, sqlite3 succeeds.
JoinEntriesNames ==
    /\ Script
    /\ pc = "join"
    /\ sqlite3_calls' = sqlite3_calls + 1
    /\ dirdist_db' = [exists |-> TRUE, tables |-> {"dirdist"},
                      dirdist |-> InnerJoin(entries, names), child_counts |-> {}]
    /\ pc' = "child_counts"
    /\ UNCHANGED <<notebook, notebook_vars, run, source_db, csv_file, status>>

\* What a failing INSERT leaves of the rows it was to write: none of them,
\* or all but one (journal_mode=off keeps what a failing statement wrote).
PartsOf(table) ==
    {NoRows(DOMAIN table)}
        \cup {[table EXCEPT ![k] = @ - 1] : k \in {j \in DOMAIN table : table[j] > 0}}

\* Lines 29-34, sqlite3 fails: before the attached file is written, or with
\* the file written and part of the join's rows in it.  set -e ends the
\* script.
JoinFails ==
    /\ Script
    /\ pc = "join"
    /\ sqlite3_calls' = sqlite3_calls + 1
    /\ \/ UNCHANGED dirdist_db
       \/ \E part \in PartsOf(InnerJoin(entries, names)) :
             dirdist_db' = [exists |-> TRUE, tables |-> {"dirdist"},
                              dirdist |-> part, child_counts |-> {}]
    /\ status' = 1
    /\ pc' = "exit"
    /\ UNCHANGED <<notebook, notebook_vars, run, source_db, csv_file>>

\* Lines 36-44, sqlite3 succeeds.
CountChildren ==
    /\ Script
    /\ pc = "child_counts"
    /\ sqlite3_calls' = sqlite3_calls + 1
    /\ dirdist_db' = [dirdist_db EXCEPT !.tables = @ \cup {"child_counts"},
                                        !.child_counts = GroupByParent(dirdist_db.dirdist)]
    /\ pc' = "histogram"
    /\ UNCHANGED <<notebook, notebook_vars, run, source_db, csv_file, status>>

\* Lines 36-44, sqlite3 fails: child_counts is not created, or holds none
\* of the groups, all but one of them, or all of them (the index is not
\* created).  set -e ends the script.
CountChildrenFails ==
    /\ Script
    /\ pc = "child_counts"
    /\ sqlite3_calls' = sqlite3_calls + 1
    /\ \/ UNCHANGED dirdist_db
       \/ \E part \in {{}, GroupByParent(dirdist_db.dirdist)}
                        \cup {GroupByParent(dirdist_db.dirdist) \ {g} :
                                 g \in GroupByParent(dirdist_db.dirdist)} :
             dirdist_db' = [dirdist_db EXCEPT !.tables = @ \cup {"child_counts"},
                                              !.child_counts = part]
    /\ status' = 1
    /\ pc' = "exit"
    /\ UNCHANGED <<notebook, notebook_vars, run, source_db, csv_file>>

\* Lines 46-48, histogram.py and tee succeed.
WriteHistogram ==
    /\ Script
    /\ pc = "histogram"
    /\ csv_file' = [exists |-> TRUE, rows |-> CountHistogram(dirdist_db.child_counts)]
    /\ status' = PipelineStatus(0, 0)
    /\ pc' = "exit"
    /\ UNCHANGED <<notebook, notebook_vars, run, source_db, dirdist_db, sqlite3_calls>>

\* Lines 46-48, histogram.py fails after printing none of its rows, or all
\* but the last: tee has opened $csv_file and writes what it received.
HistogramFails ==
    /\ Script
    /\ pc = "histogram"
    /\ \E n \in {0, Len(CountBins) - 1} :
          csv_file' = [exists |-> TRUE,
                       rows |-> SubSeq(CountHistogram(dirdist_db.child_counts), 1, n)]
    /\ status' = PipelineStatus(1, 0)
    /\ pc' = "exit"
    /\ UNCHANGED <<notebook, notebook_vars, run, source_db, dirdist_db, sqlite3_calls>>

\* Lines 46-48, tee cannot open $csv_file and fails.
TeeFails ==
    /\ Script
    /\ pc = "histogram"
    /\ status' = PipelineStatus(0, 1)
    /\ pc' = "exit"
    /\ UNCHANGED <<notebook, notebook_vars, run, source_db, dirdist_db, csv_file,
                   sqlite3_calls>>

\* The script is started again with the same argument in the same directory.
RunAgain ==
    /\ Script
    /\ pc = "exit"
    /\ run < MaxRuns
    /\ run' = run + 1
    /\ status' = 0
    /\ sqlite3_calls' = 0
    /\ pc' = "start"
    /\ UNCHANGED <<notebook, notebook_vars, source_db, dirdist_db, csv_file>>

\* Between two runs somebody removes the _dirdist.sqlite file.
RemoveDirdistDb ==
    /\ Script
    /\ pc = "exit"
    /\ run < MaxRuns
    /\ dirdist_db.exists
    /\ dirdist_db' = NoFile
    /\ UNCHANGED <<notebook, notebook_vars, pc, run, source_db, csv_file, status,
                   sqlite3_calls>>

\* ------------------------------------------------------------ specification
Unset ==
    /\ reference_df = [t \in InodeTypes |-> <<>>]
    /\ bin_extent = EmptyFrame
    /\ inode_totals = [t \in InodeTypes |-> 0]
    /\ mass_dist = EmptyFrame
    /\ mass_dist_sums = [r \in Reductions |-> Zero]
    /\ prob_dist = EmptyFrame
    /\ new_mass_dist = EmptyFrame
    /\ newfs_df = [t \in InodeTypes |-> EmptyFrame]
    /\ series = <<>>
    /\ NONEMPTY_DIRS = 0
    /\ EMPTY_DIRS = 0
    /\ inode_mass = [r \in Reductions |-> Zero]
    /\ new_mdt = [k \in MdtKinds |-> EmptyFrame]
    /\ dom_capacity = EmptyFrame
    /\ db_queries = 0
    /\ cache_writes = 0
    /\ run = 1
    /\ PARAM_BIGC_NEW = [b \in Brackets |-> None]
    /\ DWPD_NEW = [b \in Brackets |-> None]

NoParams == PARAM = [k \in ParamNames |-> None]

\* A run over a bounded source population, scanned into the histogram.
InitScan ==
    /\ notebook \in {"dom-sizing", "dir-size-dist"}
    /\ pc = "histogram"
    /\ index \in BoundarySeqs
    /\ histogram = [c \in Columns |-> ZeroCounts(Len(index))]
    /\ population = [c \in Columns |-> 0]
    /\ TARGET_TOTAL_OST_CAPACITY \in
           (IF notebook = "dom-sizing" THEN Targets ELSE {Zero})
    /\ cached_histogram = Absent
    /\ NoParams
    /\ Unset

\* A run over a histogram table built earlier (the cached CSV): the tables of
\* the two end-to-end scenarios.
ScenarioTable(idx, col, counts) ==
    [c \in Columns |-> IF c = col THEN counts ELSE ZeroCounts(Len(idx))]

InitScenario1 ==
    /\ notebook = "dom-sizing"
    /\ pc = "histogram"
    /\ index = <<2, 4, 8, 16>>
    /\ histogram = ScenarioTable(index, "files", <<0, 2, 1, 0>>)
    /\ population = [c \in Columns |-> IF c = "files" THEN 3 ELSE 0]
    /\ TARGET_TOTAL_OST_CAPACITY = F(24)
    /\ cached_histogram = [t \in InodeTypes |-> histogram[t]]
    /\ NoParams
    /\ Unset

\* A cached table whose upper bin reaches past LUSTRE_BYTES_PER_INODE.
InitLargeBins ==
    /\ notebook = "dom-sizing"
    /\ pc = "histogram"
    /\ index = <<4096, 8192>>
    /\ histogram = [c \in Columns |->
                       IF c \in ScanTypes THEN <<0, 1>> ELSE ZeroCounts(Len(index))]
    /\ population = [c \in Columns |-> IF c \in ScanTypes THEN 1 ELSE 0]
    /\ TARGET_TOTAL_OST_CAPACITY = One
    /\ cached_histogram = [t \in InodeTypes |-> histogram[t]]
    /\ NoParams
    /\ Unset

InitScenario2 ==
    /\ notebook = "dir-size-dist"
    /\ pc = "histogram"
    /\ index = <<1, 2, 4, 8>>
    /\ histogram = ScenarioTable(index, ChildCounts, <<100, 50, 20, 5>>)
    /\ population = [c \in Columns |-> IF c = ChildCounts THEN 175 ELSE 0]
    /\ TARGET_TOTAL_OST_CAPACITY = Zero
    /\ cached_histogram = Absent
    /\ NoParams
    /\ Unset

\* The settings of ssd-endurance-requirements.ipynb.  PARAM_FSWPD and the
\* PARAM_WAF_* are statistics of measured data; any of the five new-system
\* parameters may be None.
SSIValues == {F(k) : k \in 1..MaxSSI}
Ratios == {Norm(2, 3), Norm(4, 5)}
WAFValues == {One, Norm(5, 2)}

NoHistogram ==
    /\ index = <<1>>
    /\ histogram = [c \in Columns |-> ZeroCounts(Len(index))]
    /\ population = [c \in Columns |-> 0]
    /\ cached_histogram = Absent

InitEndurance ==
    /\ notebook = "ssd-endurance"
    /\ pc = "bigc_new"
    /\ PARAM \in [SSI_LOW : SSIValues, SSI_HIGH : SSIValues,
                   CHI : {None, Norm(19, 20)},
                   N_REF : {F(5)}, C_REF : {F(2)}, R_REF : {Norm(4, 5)},
                   N_NEW : {None, F(2)}, C_NEW : {None, F(3)},
                   R_NEW_LOW : {None} \cup Ratios, R_NEW_HIGH : {None} \cup Ratios,
                   FSWPD : {Norm(1, 20)},
                   WAF_LOW : WAFValues, WAF_HIGH : WAFValues]
    /\ TARGET_TOTAL_OST_CAPACITY \in {One, F(2)}
    /\ NoHistogram
    /\ Unset

\* Scenario 3: SSI 3, FSWPD 0.05, WAF 2.5, reference capacity term 1000, new
\* capacity term 4000.
InitScenario3 ==
    /\ notebook = "ssd-endurance"
    /\ pc = "bigc_new"
    /\ PARAM = [SSI_LOW |-> F(3), SSI_HIGH |-> F(3), CHI |-> One,
                N_REF |-> F(10), C_REF |-> F(100), R_REF |-> One,
                N_NEW |-> F(40), C_NEW |-> F(100),
                R_NEW_LOW |-> One, R_NEW_HIGH |-> One,
                FSWPD |-> Norm(1, 20), WAF_LOW |-> Norm(5, 2), WAF_HIGH |-> Norm(5, 2)]
    /\ TARGET_TOTAL_OST_CAPACITY = Zero
    /\ NoHistogram
    /\ Unset

\* The notebooks do not run the script and read none of its files.
NoScript ==
    /\ orig_db = ""
    /\ entries = NoRows(IdValues)
    /\ names = NoRows(NameKeys)
    /\ dirdist_db = NoFile
    /\ csv_file = NoCsv
    /\ status = 0
    /\ sqlite3_calls = 0

Init ==
    /\ NoScript
    /\ \/ InitScan
       \/ InitScenario1
       \/ InitLargeBins
       \/ InitScenario2
       \/ InitEndurance
       \/ InitScenario3

Next ==
    \/ \E col \in Columns, size \in 0..MaxBoundary : HistogramScan(col, size)
    \/ ReadCachedHistogram
    \/ GenerateHistogram
    \/ ComputeBinExtents
    \/ BinExtentsLengthMismatch
    \/ PrintInodeTotals
    \/ ComputeMassDist
    \/ ComputeProbDist
    \/ ComputeNewMassDist
    \/ ComputeNumFiles
    \/ ComputeNumNonFiles
    \/ ComputeInodeMass
    \/ ComputeNewMdt
    \/ PlotDomCapacity
    \/ ReadSeries
    \/ ComputeDirTotals
    \/ DeriveBigCNew
    \/ ComputeBigCNew
    \/ ComputeDwpdNew

Spec == Init /\ [][Next]_vars

\* Repeated runs of dom-sizing.ipynb over one input database.  The cache
\* cell does not read the target, which is fixed here.
InitRuns ==
    /\ NoScript
    /\ InitScan
    /\ notebook = "dom-sizing"
    /\ TARGET_TOTAL_OST_CAPACITY = One

NextRuns ==
    \/ \E col \in Columns, size \in 0..MaxBoundary : HistogramScan(col, size)
    \/ ReadCachedHistogram
    \/ GenerateHistogram
    \/ ComputeBinExtents
    \/ BinExtentsLengthMismatch
    \/ PrintInodeTotals
    \/ ComputeMassDist
    \/ ComputeProbDist
    \/ ComputeNewMassDist
    \/ ComputeNumFiles
    \/ ComputeNumNonFiles
    \/ ComputeInodeMass
    \/ ComputeNewMdt
    \/ PlotDomCapacity
    \/ NewRun

SpecRuns == InitRuns /\ [][NextRuns]_vars

\* bin/generate_dirdist_hist.sh is started in a directory.
NoNotebook ==
    /\ notebook = "generate_dirdist_hist.sh"
    /\ pc = "start"
    /\ run = 1
    /\ status = 0
    /\ sqlite3_calls = 0
    /\ TARGET_TOTAL_OST_CAPACITY = Zero
    /\ NoHistogram
    /\ NoParams
    /\ Unset

\* A file left by an earlier run that was aborted after the join.
AbortedDirdistDb ==
    [exists |-> TRUE, tables |-> {"dirdist"}, dirdist |-> NoRows(NameKeys),
     child_counts |-> {}]
\* A histogram file left by an earlier run.
EarlierCsv == [exists |-> TRUE, rows |-> <<1, 0, 0, 0, 0>>]

\* Any source database, no file of an earlier run.
InitScriptTables ==
    /\ NoNotebook
    /\ orig_db = "scan.sqlite"
    /\ entries \in Tables(IdValues)
    /\ names \in Tables(NameKeys)
    /\ dirdist_db = NoFile
    /\ csv_file = NoCsv

\* With or without an argument, with or without files of an earlier run.
InitScriptFiles ==
    /\ NoNotebook
    /\ orig_db \in {"", "scan.sqlite"}
    /\ entries = [NoRows(IdValues) EXCEPT !["0x1"] = 1, !["0x2"] = 1]
    /\ names = [NoRows(NameKeys) EXCEPT ![<<Null, "0x1">>] = 1, ![<<"0x1", "0x2">>] = 1]
    /\ dirdist_db \in {NoFile, AbortedDirdistDb}
    /\ csv_file \in {NoCsv, EarlierCsv}

InitScript == InitScriptTables \/ InitScriptFiles

NextScript ==
    \/ ExitSyntax
    \/ DeriveDirdistDb
    \/ ExitDirdistExists
    \/ AnnounceDirdistDb
    \/ JoinEntriesNames
    \/ JoinFails
    \/ CountChildren
    \/ CountChildrenFails
    \/ WriteHistogram
    \/ HistogramFails
    \/ TeeFails

\* One run of the script.
SpecScript == InitScript /\ [][NextScript]_vars

\* Repeated runs of the script with one argument in one directory, over one
\* source database.
NextScriptRuns ==
    \/ ExitSyntax
    \/ DeriveDirdistDb
    \/ ExitDirdistExists
    \/ AnnounceDirdistDb
    \/ JoinEntriesNames
    \/ JoinFails
    \/ CountChildren
    \/ CountChildrenFails
    \/ WriteHistogram
    \/ HistogramFails
    \/ TeeFails
    \/ RunAgain
    \/ RemoveDirdistDb

SpecScriptRuns == InitScriptFiles /\ [][NextScriptRuns]_vars

\* ------------------------------------------------------------- properties
\* Which cells of dom-sizing.ipynb have run.
ExtentsComputed ==
    /\ notebook = "dom-sizing"
    /\ pc \in {"inode_totals", "mass_dist", "prob_dist", "new_mass_dist", "num_files",
               "num_nonfiles", "inode_mass", "new_mdt", "plot_dom_capacity", "done"}
ProbComputed ==
    /\ notebook = "dom-sizing"
    /\ pc \in {"new_mass_dist", "num_files", "num_nonfiles", "inode_mass", "new_mdt",
               "plot_dom_capacity", "done"}
FilesProjected ==
    /\ notebook = "dom-sizing"
    /\ pc \in {"num_nonfiles", "inode_mass", "new_mdt", "plot_dom_capacity", "done"}
AllProjected ==
    /\ notebook = "dom-sizing"
    /\ pc \in {"inode_mass", "new_mdt", "plot_dom_capacity", "done"}
InodeMassComputed == notebook = "dom-sizing" /\ pc \in {"new_mdt", "plot_dom_capacity", "done"}
MdtComputed == notebook = "dom-sizing" /\ pc \in {"plot_dom_capacity", "done"}
CapacityPlotted == notebook = "dom-sizing" /\ pc = "done"

Positive(x) == ~IsNaN(x) /\ x # Zero

\* C1: bound ordering of the projected file counts. With a non-empty file
\* population and a positive target, every bin has
\* num_files_min <= num_files_ave <= num_files_max, and invalid_minmax_df
\* counts no bin.
C1_BoundOrdering ==
    (FilesProjected /\ population["files"] > 0 /\ Positive(TARGET_TOTAL_OST_CAPACITY))
    => /\ \A b \in Bins :
            /\ FLe(newfs_df["files"]["min"][b], newfs_df["files"]["ave"][b])
            /\ FLe(newfs_df["files"]["ave"][b], newfs_df["files"]["max"][b])
       /\ invalid_minmax_df(newfs_df, "files") = 0

\* The ordering of C1 on the boundary sequences whose bins all have
\* bin_extent_min <= bin_extent_max (every sequence but those that start 0, 1).
BoundOrderingOfOrderedBins ==
    (/\ FilesProjected
     /\ \A b \in Bins : FLe(bin_extent["min"][b], bin_extent["max"][b]))
    => /\ \A b \in Bins :
            /\ FLe(newfs_df["files"]["min"][b], newfs_df["files"]["ave"][b])
            /\ FLe(newfs_df["files"]["ave"][b], newfs_df["files"]["max"][b])
       /\ invalid_minmax_df(newfs_df, "files") = 0

\* C2 as stated: under each convention whose total reference mass is
\* positive, the probabilities of the bins sum to exactly 1.
C2_EachConventionSumsToOne ==
    (ProbComputed /\ \A r \in Reductions : Positive(mass_dist_sums[r]))
    => \A r \in Reductions : SeriesSum(prob_dist[r]) = One

\* C2 amended: when the total average mass is positive, the average
\* probabilities sum to 1, the min probabilities sum to (total min mass) /
\* (total max mass) and the max probabilities sum to (total max mass) /
\* (total min mass), which is infinite when the total min mass is 0.
C2_ProbabilitySums ==
    (ProbComputed /\ Positive(mass_dist_sums["ave"]))
    => /\ SeriesSum(prob_dist["ave"]) = One
       /\ SeriesSum(prob_dist["min"]) = FDiv(mass_dist_sums["min"], mass_dist_sums["max"])
       /\ SeriesSum(prob_dist["max"]) = FDiv(mass_dist_sums["max"], mass_dist_sums["min"])

C2_Witness ==
    /\ ProbComputed
    /\ Positive(mass_dist_sums["min"])
    /\ mass_dist_sums["min"] # mass_dist_sums["max"]
    /\ SeriesSum(prob_dist["min"]) # One
    /\ SeriesSum(prob_dist["ave"]) = One

\* C3: cross-convention denominator. The min probability of a bin is its
\* min-extent mass over the total max-extent mass, the max probability its
\* max-extent mass over the total min-extent mass, the average probability its
\* average-extent mass over the total average-extent mass.
ExtentMass(r, b) == fillna(FMul(F(reference_df["files"][b]), bin_extent[r][b]))
TotalExtentMass(r) == SeriesSum([b \in Bins |-> ExtentMass(r, b)])

C3_CrossDenominator ==
    ProbComputed =>
        \A b \in Bins :
            /\ prob_dist["min"][b] = FDiv(ExtentMass("min", b), TotalExtentMass("max"))
            /\ prob_dist["max"][b] = FDiv(ExtentMass("max", b), TotalExtentMass("min"))
            /\ prob_dist["ave"][b] = FDiv(ExtentMass("ave", b), TotalExtentMass("ave"))

C3_Witness ==
    /\ ProbComputed
    /\ Positive(TotalExtentMass("min"))
    /\ TotalExtentMass("min") # TotalExtentMass("max")
    /\ TotalExtentMass("ave") # TotalExtentMass("max")
    /\ \E b \in Bins : Positive(prob_dist["min"][b])

\* C4: mass conservation of the average-convention rescaling. With a positive
\* total average mass, the projected average mass of a bin is its probability
\* times the target, the projected masses sum to the target, and so does
\* num_files_ave * bin_extent_ave summed over the bins.
C4_MassConservation ==
    (FilesProjected /\ Positive(mass_dist_sums["ave"]))
    => /\ \A b \in Bins :
            new_mass_dist["ave"][b] = FMul(prob_dist["ave"][b], TARGET_TOTAL_OST_CAPACITY)
       /\ SeriesSum(new_mass_dist["ave"]) = TARGET_TOTAL_OST_CAPACITY
       /\ SeriesSum([b \in Bins |->
                        FMul(newfs_df["files"]["ave"][b], bin_extent["ave"][b])])
            = TARGET_TOTAL_OST_CAPACITY

C4_Witness ==
    /\ FilesProjected
    /\ Positive(mass_dist_sums["ave"])
    /\ Positive(TARGET_TOTAL_OST_CAPACITY)
    /\ Cardinality({b \in Bins : Positive(newfs_df["files"]["ave"][b])}) >= 2

C6_BinExtents ==
    ExtentsComputed =>
        /\ bin_extent["min"][1] = Zero
        /\ \A b \in Bins :
              /\ b > 1 => bin_extent["min"][b] = FAdd(bin_extent["max"][b - 1], One)
              /\ bin_extent["max"][b] = F(index[b])
              /\ bin_extent["ave"][b] =
                    FDiv(FAdd(bin_extent["min"][b], bin_extent["max"][b]), F(2))

\* What the cell computes: C6 with bin_extent_min of the second bin always 2.
BinExtentsAsComputed ==
    ExtentsComputed =>
        /\ bin_extent["min"][1] = Zero
        /\ bin_extent["min"][2] = F(2)
        /\ \A b \in Bins :
              /\ b > 2 => bin_extent["min"][b] = FAdd(bin_extent["max"][b - 1], One)
              /\ bin_extent["max"][b] = F(index[b])
              /\ bin_extent["ave"][b] =
                    FDiv(FAdd(bin_extent["min"][b], bin_extent["max"][b]), F(2))

\* C7: zero-population handling. Once the probability cell has run on a
\* reference whose total mass under a denominator convention is 0, the run
\* has ended in an EmptyDistribution error: no projection is computed.
C7_EmptyDistribution ==
    (/\ notebook = "dom-sizing"
     /\ pc \notin {"histogram", "bin_extents", "inode_totals", "mass_dist", "prob_dist",
                   "ValueError"}
     /\ \E r \in Reductions : mass_dist_sums[r] = Zero)
    => pc = "EmptyDistribution"

\* C8: non-file projection. For every non-file type, convention and bin the
\* projected count is projected_file_count * reference_count_type /
\* reference_file_count when the reference file count of the bin is not 0,
\* and exactly 0 when it is 0.
C8_NonFileProjection ==
    AllProjected =>
        \A t \in NonFileTypes, r \in Reductions, b \in Bins :
            newfs_df[t][r][b] =
                (IF reference_df["files"][b] # 0
                 THEN FDiv(FMul(newfs_df["files"][r][b], F(reference_df[t][b])),
                           F(reference_df["files"][b]))
                 ELSE Zero)

\* C8 on the references whose total min and max masses are both positive
\* (where C7's missing error does not interfere).
NonFileProjectionOfPositiveMass ==
    (AllProjected /\ \A r \in Reductions : Positive(mass_dist_sums[r]))
    => \A t \in NonFileTypes, r \in Reductions, b \in Bins :
            newfs_df[t][r][b] =
                (IF reference_df["files"][b] # 0
                 THEN FDiv(FMul(newfs_df["files"][r][b], F(reference_df[t][b])),
                           F(reference_df["files"][b]))
                 ELSE Zero)

\* The zero-fallback half of C8, on every reference.
NonFileZeroFallback ==
    AllProjected =>
        \A t \in NonFileTypes, r \in Reductions, b \in Bins :
            reference_df["files"][b] = 0 => newfs_df[t][r][b] = Zero

\* C9 as stated: scenario 1 gives total average mass 12, probabilities
\* [0, 0.5, 0.5, 0], projected mass [0, 12, 12, 0] and counts [0, 4, 2, 0].
Scenario1 ==
    /\ AllProjected
    /\ index = <<2, 4, 8, 16>>
    /\ reference_df["files"] = <<0, 2, 1, 0>>
    /\ TARGET_TOTAL_OST_CAPACITY = F(24)

C10_CountConservation ==
    /\ \A c \in Columns : IntSum(histogram[c]) = population[c]
    /\ (notebook = "dom-sizing" /\ pc \notin {"histogram", "bin_extents", "inode_totals", "ValueError"})
          => \A t \in InodeTypes : inode_totals[t] = population[t]
    /\ (notebook = "dir-size-dist" /\ pc = "done")
          => /\ NONEMPTY_DIRS = population[ChildCounts]
             /\ EMPTY_DIRS = TOTAL_DIRS - population[ChildCounts]
             /\ (index = <<1, 2, 4, 8>> /\ series = <<100, 50, 20, 5>>)
                    => NONEMPTY_DIRS = 175

C10_Witness ==
    /\ notebook = "dir-size-dist"
    /\ pc = "done"
    /\ index = <<1, 2, 4, 8>>
    /\ series = <<100, 50, 20, 5>>
    /\ NONEMPTY_DIRS = 175

\* The sizes a scanned record can have.
ScannedSizes == {size \in 0..MaxBoundary : size \in ScanSizes}

\* C11: order independence of the histogram. Whatever has been counted so
\* far, counting two further records in either order gives the same table;
\* so the table of a population does not depend on the order of its records.
C11_OrderIndependence ==
    pc = "histogram" =>
        \A c1 \in ScanColumns, c2 \in ScanColumns, s1 \in ScannedSizes, s2 \in ScannedSizes :
            AddRecord(AddRecord(histogram, index, c1, s1), index, c2, s2)
                = AddRecord(AddRecord(histogram, index, c2, s2), index, c1, s1)

C11_Witness ==
    /\ pc = "histogram"
    /\ notebook = "dom-sizing"
    /\ population["files"] >= 2
    /\ Cardinality({b \in Bins : histogram["files"][b] > 0}) >= 2

\* C12: bin lookup is total and in range. Every size from 0 up to the
\* highest boundary is counted in exactly one bin, which is the one bin whose
\* [bin_extent_min, bin_extent_max] contains the size; size 0 is counted in
\* the lowest bin.
BinsHolding(size) ==
    {b \in Bins : FLe(bin_extent["min"][b], F(size)) /\ FLe(F(size), bin_extent["max"][b])}

C12_BinLookup ==
    ExtentsComputed =>
        /\ \A size \in 0..index[NBins] :
              /\ BinOf(index, size) \in Bins
              /\ BinsHolding(size) = {BinOf(index, size)}
        /\ BinOf(index, 0) = 1

\* C12 on the boundary sequences that start at 1, where bin_extent_min of
\* the second bin (always 2) is the first boundary plus 1.
BinLookupOfUnitFirstBoundary ==
    (ExtentsComputed /\ index[1] = 1) =>
        /\ \A size \in 0..index[NBins] :
              /\ BinOf(index, size) \in Bins
              /\ BinsHolding(size) = {BinOf(index, size)}
        /\ BinOf(index, 0) = 1

\* Which cells of ssd-endurance-requirements.ipynb have run.
CapacityChosen == notebook = "ssd-endurance" /\ pc \in {"dwpd_new", "done"}
DwpdComputed == notebook = "ssd-endurance" /\ pc = "done"

\* C13: the endurance formula. DWPD_NEW of each bracket is
\* SSI * FSWPD * WAF * (R_REF * N_REF * C_REF) / C_new; with SSI 3, FSWPD 0.05,
\* WAF 2.5, reference capacity term 1000 and new capacity term 4000 it is
\* 0.09375.
ReferenceCapacity == FMul(FMul(PARAM["R_REF"], PARAM["N_REF"]), PARAM["C_REF"])

C13_EnduranceFormula ==
    DwpdComputed =>
        /\ \A b \in Brackets :
              DWPD_NEW[b] =
                  FDiv(FMul(FMul(FMul(PARAM["SSI_" \o b], PARAM["FSWPD"]), PARAM["WAF_" \o b]),
                            ReferenceCapacity),
                       PARAM_BIGC_NEW[b])
        /\ (/\ PARAM["SSI_LOW"] = F(3)
            /\ PARAM["FSWPD"] = Norm(5, 100)
            /\ PARAM["WAF_LOW"] = Norm(25, 10)
            /\ ReferenceCapacity = F(1000)
            /\ PARAM_BIGC_NEW["LOW"] = F(4000))
           => DWPD_NEW["LOW"] = Norm(9375, 100000)

C13_Witness ==
    /\ DwpdComputed
    /\ PARAM["SSI_LOW"] = F(3)
    /\ PARAM["FSWPD"] = Norm(5, 100)
    /\ PARAM["WAF_LOW"] = Norm(25, 10)
    /\ ReferenceCapacity = F(1000)
    /\ PARAM_BIGC_NEW["LOW"] = F(4000)
    /\ DWPD_NEW["LOW"] = Norm(9375, 100000)

\* The run reached its end with a finite DWPD in both brackets.
DwpdDefined == \A b \in Brackets : DWPD_NEW[b] # None /\ ~IsNaN(DWPD_NEW[b]) /\ ~IsInf(DWPD_NEW[b])

\* C14 as stated: if any of chi, N_new, c_new, R_new_low, R_new_high is
\* undefined the capacity term is the rescaler's target mass
\* (TARGET_TOTAL_OST_CAPACITY), otherwise it is chi * R * N * c; the DWPD
\* computation completes either way.
C14_FallbackFromTargetMass ==
    /\ CapacityChosen =>
          \A b \in Brackets :
              PARAM_BIGC_NEW[b] =
                  (IF \E k \in {"CHI", "N_NEW", "C_NEW", "R_NEW_LOW", "R_NEW_HIGH"} :
                          PARAM[k] = None
                   THEN TARGET_TOTAL_OST_CAPACITY
                   ELSE FMul(PARAM["CHI"],
                             FMul(PARAM["R_NEW_" \o b], FMul(PARAM["N_NEW"], PARAM["C_NEW"]))))
    /\ DwpdComputed => DwpdDefined

\* C14 amended: if any of the five is undefined the capacity term of a
\* bracket is its SSI * 28 / 0.5 * (the daily growth literal), whatever the
\* rescaler's target mass; otherwise it is chi * R * N * c; the DWPD
\* computation completes either way.
C14_FallbackFromDailyGrowth ==
    /\ CapacityChosen =>
          \A b \in Brackets :
              PARAM_BIGC_NEW[b] =
                  (IF \E k \in {"CHI", "N_NEW", "C_NEW", "R_NEW_LOW", "R_NEW_HIGH"} :
                          PARAM[k] = None
                   THEN FMul(FMul(PARAM["SSI_" \o b], F(56)), DailyGrowth)
                   ELSE FMul(PARAM["CHI"],
                             FMul(PARAM["R_NEW_" \o b], FMul(PARAM["N_NEW"], PARAM["C_NEW"]))))
    /\ DwpdComputed => DwpdDefined

C14_Witness ==
    /\ DwpdComputed
    /\ PARAM["N_NEW"] = None
    /\ PARAM["CHI"] # None
    /\ PARAM["SSI_LOW"] = F(2)
    /\ PARAM_BIGC_NEW["LOW"] = F(112)
    /\ TARGET_TOTAL_OST_CAPACITY = F(2)
    /\ DwpdDefined

\* C15: once the capacity cell has run with the drive count and the drive
\* capacity both undefined (the notebook has no total-capacity setting), the
\* run has ended in an UnderspecifiedCapacityTarget error: no DWPD is computed
\* from a defaulted capacity.
C15_UnderspecifiedCapacityTarget ==
    (/\ notebook = "ssd-endurance"
     /\ pc # "bigc_new"
     /\ PARAM["N_NEW"] = None
     /\ PARAM["C_NEW"] = None)
    => pc = "UnderspecifiedCapacityTarget"

\* C16: the metadata residency series. For every convention and bin i,
\* whole_file_mass[i] is the sum of the projected mass over the bins up to and
\* including i, first_stripe_mass[i] is the sum of the projected file counts
\* over the bins above i times bin_extent_max[i], and total_dom_mass[i] is the
\* sum of the two.  (A sum leaves out the NaN entries, as Series.sum does.)
RECURSIVE MassUpTo(_, _)
MassUpTo(r, i) ==
    IF i = 0 THEN Zero ELSE FAdd(MassUpTo(r, i - 1), fillna(new_mass_dist[r][i]))

RECURSIVE FilesAbove(_, _)
FilesAbove(r, i) ==
    IF i >= NBins THEN Zero
    ELSE FAdd(fillna(newfs_df["files"][r][i + 1]), FilesAbove(r, i + 1))

C16_MetadataResidency ==
    MdtComputed =>
        \A r \in Reductions, i \in Bins :
            /\ new_mdt["whole_file_mass"][r][i] = MassUpTo(r, i)
            /\ new_mdt["first_stripe_mass"][r][i] =
                   FMul(FilesAbove(r, i), bin_extent["max"][i])
            /\ new_mdt["total_dom_mass"][r][i] =
                   FAdd(new_mdt["whole_file_mass"][r][i], new_mdt["first_stripe_mass"][r][i])

C16_Witness ==
    /\ MdtComputed
    /\ NBins >= 2
    /\ Positive(new_mdt["whole_file_mass"]["ave"][1])
    /\ new_mdt["whole_file_mass"]["ave"][NBins] # new_mdt["whole_file_mass"]["ave"][1]
    /\ Positive(new_mdt["first_stripe_mass"]["ave"][1])
    /\ new_mdt["first_stripe_mass"]["ave"][NBins] = Zero

\* The inode mass of the non-file types of a convention, and the inode mass
\* of its files.
HigherOf(x, y) == IF FLe(x, y) THEN y ELSE x

NonFileMassOfBin(r, b) ==
    LET mass[i \in 0..Len(NON_FILE_INODE_TYPES)] ==
            IF i = 0 THEN Zero
            ELSE LET count == newfs_df[NON_FILE_INODE_TYPES[i]][r][b]
                 IN  FAdd(mass[i - 1],
                          HigherOf(FMul(count, bin_extent[r][b]),
                                   FMul(count, F(LUSTRE_BYTES_PER_INODE))))
    IN  mass[Len(NON_FILE_INODE_TYPES)]

NonFileMass(r) == SeriesSum([b \in Bins |-> NonFileMassOfBin(r, b)])
FilesMass(r) == FMul(SeriesSum(newfs_df["files"][r]), F(LUSTRE_BYTES_PER_INODE))

\* C17 as stated: the capacity at a threshold bin is whole_file_mass +
\* first_stripe_mass + the inode mass of the non-file types only.
C17_NonFileInodeMassOnly ==
    CapacityPlotted =>
        \A r \in Reductions, b \in Bins :
            dom_capacity[r][b] =
                FAdd(FAdd(new_mdt["whole_file_mass"][r][b],
                          new_mdt["first_stripe_mass"][r][b]),
                     NonFileMass(r))

\* C17 amended: the capacity at a threshold bin is whole_file_mass +
\* first_stripe_mass + the inode mass of all types: that of the non-file types
\* plus LUSTRE_BYTES_PER_INODE for every projected file.
C17_TotalMetadataCapacity ==
    CapacityPlotted =>
        \A r \in Reductions, b \in Bins :
            dom_capacity[r][b] =
                FAdd(FAdd(new_mdt["whole_file_mass"][r][b],
                          new_mdt["first_stripe_mass"][r][b]),
                     FAdd(NonFileMass(r), FilesMass(r)))

C17_Witness ==
    /\ CapacityPlotted
    /\ Positive(NonFileMass("ave"))
    /\ Positive(FilesMass("ave"))
    /\ \E b \in Bins : Positive(new_mdt["first_stripe_mass"]["ave"][b])
    /\ \A b \in Bins : ~IsInf(dom_capacity["ave"][b])

\* C18: the per-inode floor. The inode mass of a convention is the sum over
\* the bins of LUSTRE_BYTES_PER_INODE per file plus, for every non-file type,
\* the larger of count * bin_extent and count * LUSTRE_BYTES_PER_INODE; so it is
\* at least LUSTRE_BYTES_PER_INODE times the number of projected inodes of all
\* types.
TotalInodes(r) ==
    LET total[i \in 0..Len(INODE_TYPES)] ==
            IF i = 0 THEN Zero
            ELSE FAdd(total[i - 1], SeriesSum(newfs_df[INODE_TYPES[i]][r]))
    IN  total[Len(INODE_TYPES)]

C18_PerInodeFloor ==
    InodeMassComputed =>
        \A r \in Reductions :
            /\ inode_mass[r] = FAdd(NonFileMass(r), FilesMass(r))
            /\ FLe(FMul(F(LUSTRE_BYTES_PER_INODE), TotalInodes(r)), inode_mass[r])

C18_Witness ==
    /\ InodeMassComputed
    /\ \E b \in Bins :
          /\ Positive(newfs_df["dirs"]["ave"][b])
          /\ ~FLe(bin_extent["ave"][b], F(LUSTRE_BYTES_PER_INODE))
    /\ \E b \in Bins :
          /\ Positive(newfs_df["dirs"]["min"][b])
          /\ ~FLe(F(LUSTRE_BYTES_PER_INODE), bin_extent["min"][b])
    /\ ~IsInf(inode_mass["ave"])

\* C19: the cache protocol. The cache cell of a run queries the database and
\* writes the cache file exactly when no cache file exists as it starts; a
\* run that finds the file loads it and neither queries nor writes; no other
\* cell queries or writes; the file, once written, is never changed, and is
\* written at most once.
CacheCellRuns == notebook = "dom-sizing" /\ pc = "histogram" /\ pc' = "bin_extents"

C19_CacheProtocol ==
    /\ [][CacheCellRuns =>
             IF cached_histogram = Absent
             THEN /\ db_queries' = db_queries + 1
                  /\ cache_writes' = cache_writes + 1
                  /\ cached_histogram' = [t \in InodeTypes |-> histogram[t]]
                  /\ reference_df' = cached_histogram'
             ELSE /\ db_queries' = db_queries
                  /\ cache_writes' = cache_writes
                  /\ cached_histogram' = cached_histogram
                  /\ reference_df' = cached_histogram]_vars
    /\ [][~CacheCellRuns => (db_queries' = db_queries /\ cache_writes' = cache_writes)]_vars
    /\ [][cached_histogram # Absent => cached_histogram' = cached_histogram]_vars
    /\ [](cache_writes <= 1)

C19_Witness ==
    /\ run = 2
    /\ pc = "done"
    /\ population["files"] > 0
    /\ reference_df = cached_histogram
    /\ db_queries = 1
    /\ cache_writes = 1

\* C20 as stated: in every bin num_files_min is the projected min mass over
\* bin_extent_max, num_files_max the projected max mass over
\* max(1, bin_extent_min) and num_files_ave the projected average mass over
\* bin_extent_ave (here on references whose three total masses are positive);
\* the divisor of the max count is never 0.
C20_CountInversion ==
    (FilesProjected /\ \A r \in Reductions : Positive(mass_dist_sums[r]))
    => \A b \in Bins :
          /\ newfs_df["files"]["min"][b] =
                 FDiv(new_mass_dist["min"][b], bin_extent["max"][b])
          /\ newfs_df["files"]["max"][b] =
                 FDiv(new_mass_dist["max"][b], Max1(bin_extent["min"][b]))
          /\ newfs_df["files"]["ave"][b] =
                 FDiv(new_mass_dist["ave"][b], bin_extent["ave"][b])
          /\ Max1(bin_extent["min"][b]) # Zero

\* C20 amended: the same quotients, with a quotient that is undefined (0 / 0
\* in a lowest bin whose boundary is 0, or a projected mass that is NaN)
\* replaced by 0; the divisor of the max count is at least 1.
ZeroIfUndefined(x) == IF x = NaN THEN Zero ELSE x

C20_CountInversionZeroFilled ==
    FilesProjected
    => \A b \in Bins :
          /\ newfs_df["files"]["min"][b] =
                 ZeroIfUndefined(FDiv(new_mass_dist["min"][b], bin_extent["max"][b]))
          /\ newfs_df["files"]["max"][b] =
                 ZeroIfUndefined(FDiv(new_mass_dist["max"][b],
                                      HigherOf(One, bin_extent["min"][b])))
          /\ newfs_df["files"]["ave"][b] =
                 ZeroIfUndefined(FDiv(new_mass_dist["ave"][b], bin_extent["ave"][b]))
          /\ FLe(One, HigherOf(One, bin_extent["min"][b]))

C20_Witness ==
    /\ FilesProjected
    /\ \A r \in Reductions : Positive(mass_dist_sums[r])
    /\ bin_extent["min"][1] = Zero
    /\ Positive(newfs_df["files"]["max"][1])
    /\ newfs_df["files"]["max"][1] = new_mass_dist["max"][1]
    /\ \E b \in Bins : b > 1 /\ Positive(newfs_df["files"]["min"][b])

----------------------------------------------------------------------------
(* invert_redux as a function of any value                                 *)

\* The convention keys of the notebook's tables and two values that are not
\* min/max conventions.
ReduxInputs == DOMAIN inode_mass \cup {"sum", ""}

\* C21: invert_redux exchanges "min" and "max", returns every other value
\* (in particular "ave") unchanged, and applying it twice gives back its
\* argument, for every argument.
C21_InvertReduxInvolution ==
    /\ invert_redux("min") = "max"
    /\ invert_redux("max") = "min"
    /\ \A x \in ReduxInputs \ {"min", "max"} : invert_redux(x) = x
    /\ \A x \in ReduxInputs : invert_redux(invert_redux(x)) = x
    /\ {"min", "max", "ave"} \subseteq ReduxInputs

\* The probability cell has applied invert_redux to all three conventions:
\* the min and max totals differ and each convention was divided by the
\* total that invert_redux names.
C21_Witness ==
    /\ ProbComputed
    /\ Positive(mass_dist_sums["min"])
    /\ mass_dist_sums["min"] # mass_dist_sums["max"]
    /\ \A r \in Reductions : \A b \in 1..Len(prob_dist[r]) :
          prob_dist[r][b] =
              FDiv(mass_dist[r][b], mass_dist_sums[invert_redux(r)])
    /\ \E b \in 1..Len(prob_dist["max"]) :
          prob_dist["max"][b] # FDiv(mass_dist["max"][b], mass_dist_sums["max"])

----------------------------------------------------------------------------
(* Order of the bin extents                                                *)

\* Bins b and c share no size: one range ends before the other begins.
RangesDisjoint(b, c) ==
    \/ ~FLe(bin_extent["min"][c], bin_extent["max"][b])
    \/ ~FLe(bin_extent["min"][b], bin_extent["max"][c])

ExtentsOrdered(b) ==
    /\ FLe(Zero, bin_extent["min"][b])
    /\ FLe(bin_extent["min"][b], bin_extent["ave"][b])
    /\ FLe(bin_extent["ave"][b], bin_extent["max"][b])

\* C24: for every bin of every boundary sequence the extents cell accepts,
\* 0 <= bin_extent_min <= bin_extent_ave <= bin_extent_max, and the
\* [bin_extent_min, bin_extent_max] ranges of two different bins share no
\* size.
C24_ExtentsWellOrdered ==
    ExtentsComputed =>
        /\ \A b \in Bins : ExtentsOrdered(b)
        /\ \A b, c \in Bins : b # c => RangesDisjoint(b, c)

\* C24 on the boundary sequences that start at 1, where bin_extent_min of
\* the second bin (always 2) is the first boundary plus 1.
ExtentsWellOrderedOfUnitFirstBoundary ==
    (ExtentsComputed /\ index[1] = 1) =>
        /\ \A b \in Bins : ExtentsOrdered(b)
        /\ \A b, c \in Bins : b # c => RangesDisjoint(b, c)

----------------------------------------------------------------------------
(* Bracket of the projected mass                                           *)

MassProjected ==
    /\ notebook = "dom-sizing"
    /\ pc \in {"num_files", "num_nonfiles", "inode_mass", "new_mdt",
               "plot_dom_capacity", "done"}

AllTotalsPositive == \A r \in Reductions : Positive(mass_dist_sums[r])

MassBracketed ==
    /\ \A b \in Bins :
          /\ FLe(new_mass_dist["min"][b], new_mass_dist["ave"][b])
          /\ FLe(new_mass_dist["ave"][b], new_mass_dist["max"][b])
    /\ FLe(SeriesSum(new_mass_dist["min"]), TARGET_TOTAL_OST_CAPACITY)
    /\ FLe(TARGET_TOTAL_OST_CAPACITY, SeriesSum(new_mass_dist["max"]))

\* C25: with a reference histogram of positive total mass (under every
\* convention) and any target, the projected mass of every bin satisfies
\* dmass_min <= dmass_ave <= dmass_max, the projected min masses sum to at
\* most the target and the projected max masses to at least the target.
C25_MassBracketed ==
    (MassProjected /\ AllTotalsPositive) => MassBracketed

\* C25 on the boundary sequences that start at 1, where bin_extent_min of
\* the second bin (always 2) is the first boundary plus 1.
MassBracketedOfUnitFirstBoundary ==
    (MassProjected /\ AllTotalsPositive /\ index[1] = 1) => MassBracketed

\* C25 when only the average total is required to be positive.
MassBracketedOfPositiveAverage ==
    (MassProjected /\ Positive(mass_dist_sums["ave"]) /\ index[1] = 1)
    => MassBracketed

----------------------------------------------------------------------------
(* Shape of the Data-on-MDT capacity curve                                 *)

CurveMonotone ==
    \A r \in Reductions : \A b \in 1..(NBins - 1) :
        FLe(new_mdt["total_dom_mass"][r][b], new_mdt["total_dom_mass"][r][b + 1])

CurveEndsAtTotalMass ==
    \A r \in Reductions :
        /\ new_mdt["first_stripe_mass"][r][NBins] = Zero
        /\ new_mdt["whole_file_mass"][r][NBins] = SeriesSum(new_mass_dist[r])

\* C26: for each convention total_dom_mass (whole_file_mass plus
\* first_stripe_mass) at bin i+1 is at least its value at bin i, for every
\* pair of adjacent bins; at the largest bin first_stripe_mass is 0 and
\* whole_file_mass is the total projected mass of the convention.
C26_MonotoneCapacityCurve ==
    MdtComputed => (CurveMonotone /\ CurveEndsAtTotalMass)

\* The monotone half of C26 fails even when no total is zero.
MonotoneCurveOfPositiveTotals ==
    (MdtComputed /\ AllTotalsPositive) => CurveMonotone

\* C26 on the boundary sequences that start at 1, where bin_extent_min of
\* the second bin (always 2) is the first boundary plus 1, with no total
\* zero.
MonotoneCurveOfUnitFirstBoundary ==
    (MdtComputed /\ AllTotalsPositive /\ index[1] = 1)
    => (CurveMonotone /\ CurveEndsAtTotalMass)

\* The largest bin's half of C26 holds on every run.
CurveEndOnEveryRun == MdtComputed => CurveEndsAtTotalMass

----------------------------------------------------------------------------
(* The endurance bracket                                                   *)

Fallback == CapacityUndefined(PARAM)

\* C27: in the fallback branch (some new-system parameter undefined) the
\* DWPD of a bracket does not depend on the bracket's SSI: it equals
\* FSWPD * WAF * (R_REF * N_REF * C_REF) / (28 / 0.5 * daily growth), and
\* evaluating the two cells again with any other SSI gives the same DWPD.
C27_FallbackIndependentOfSsi ==
    (DwpdComputed /\ Fallback) =>
        \A b \in Brackets :
            /\ DWPD_NEW[b] =
                  FDiv(FMul(FMul(PARAM["FSWPD"], PARAM["WAF_" \o b]), ReferenceCapacity),
                       FMul(F(56), DailyGrowth))
            /\ \A ssi \in SSIValues :
                  DwpdNew(PARAM, ssi, PARAM["WAF_" \o b], DerivedCapacity(ssi))
                      = DWPD_NEW[b]

\* A fallback run whose two brackets differ only in their SSI and end with
\* the same DWPD.
C27_Witness ==
    /\ DwpdComputed
    /\ Fallback
    /\ DwpdDefined
    /\ PARAM["SSI_LOW"] # PARAM["SSI_HIGH"]
    /\ PARAM["WAF_LOW"] = PARAM["WAF_HIGH"]
    /\ PARAM_BIGC_NEW["LOW"] # PARAM_BIGC_NEW["HIGH"]
    /\ DWPD_NEW["LOW"] = DWPD_NEW["HIGH"]
    /\ Positive(DWPD_NEW["LOW"])

BracketParametersOrdered ==
    /\ FLe(PARAM["SSI_LOW"], PARAM["SSI_HIGH"])
    /\ FLe(PARAM["WAF_LOW"], PARAM["WAF_HIGH"])
    /\ (PARAM["R_NEW_LOW"] # None /\ PARAM["R_NEW_HIGH"] # None)
          => FLe(PARAM["R_NEW_LOW"], PARAM["R_NEW_HIGH"])

\* C28: whenever SSI_LOW <= SSI_HIGH, WAF_LOW <= WAF_HIGH and
\* R_NEW_LOW <= R_NEW_HIGH (all positive), DWPD_NEW_LOW <= DWPD_NEW_HIGH, in
\* the fallback branch and in the branch that uses chi * R * N * c.
C28_BracketOrdered ==
    (DwpdComputed /\ BracketParametersOrdered)
    => FLe(DWPD_NEW["LOW"], DWPD_NEW["HIGH"])

\* C28 in the fallback branch alone.
BracketOrderedInFallback ==
    (DwpdComputed /\ BracketParametersOrdered /\ Fallback)
    => FLe(DWPD_NEW["LOW"], DWPD_NEW["HIGH"])

\* C28 in the chi * R * N * c branch when both brackets use the same RAID
\* ratio.
BracketOrderedOfEqualRatio ==
    (DwpdComputed /\ BracketParametersOrdered /\ ~Fallback
        /\ PARAM["R_NEW_LOW"] = PARAM["R_NEW_HIGH"])
    => FLe(DWPD_NEW["LOW"], DWPD_NEW["HIGH"])

----------------------------------------------------------------------------
(* bin/generate_dirdist_hist.sh                                            *)

ScriptExited == Script /\ pc = "exit"

\* The run is at a validation that fails: no argument at the argument test,
\* or an existing _dirdist.sqlite at the existence test.
ValidationFails ==
    /\ Script
    /\ \/ pc = "start" /\ orig_db = ""
       \/ pc = "exists_check" /\ dirdist_db.exists

\* C22: if no database argument is given, or if the derived file
\* <basename>_dirdist.sqlite already exists, the script exits with status 1
\* before any sqlite3 command runs, and leaves the source database, the
\* existing _dirdist.sqlite file and any _hist.csv file unchanged.
C22_ValidateBeforeSideEffects ==
    [][ValidationFails =>
          /\ pc' = "exit"
          /\ status' = 1
          /\ sqlite3_calls = 0
          /\ sqlite3_calls' = 0
          /\ UNCHANGED <<source_db, dirdist_db, csv_file>>]_vars

\* A run with an argument that ended at the existence test, the files of
\* the earlier run as they were.
C22_Witness ==
    /\ ScriptExited
    /\ orig_db # ""
    /\ status = 1
    /\ sqlite3_calls = 0
    /\ dirdist_db = AbortedDirdistDb
    /\ csv_file = EarlierCsv

\* The number of rows of the join whose parent_id is p: every names row of
\* parent p pairs with every entries row of the same, non-NULL, id.
JoinedRowsOf(p) ==
    RowCount([i \in InodeIds |-> names[<<p, i>>] * entries[i]], InodeIds)

\* Both sqlite3 commands of this run succeeded.
ChildCountsBuilt ==
    /\ Script
    /\ \/ pc = "histogram"
       \/ pc = "exit" /\ status = 0

CountOfParent(cc, p) ==
    IF \E row \in cc : row[1] = p THEN (CHOOSE row \in cc : row[1] = p)[2] ELSE 0

\* C23: after a successful run child_counts holds exactly one row per
\* distinct parent_id of the join of entries and names on id, the row's
\* count is the number of joined rows with that parent_id (at least 1, so a
\* directory without children has no row), and the counts sum to the number
\* of rows of dirdist.
C23_ChildCounts ==
    ChildCountsBuilt =>
        LET cc == dirdist_db.child_counts
        IN  /\ dirdist_db.tables = {"dirdist", "child_counts"}
            /\ \A p \in IdValues :
                  Cardinality({row \in cc : row[1] = p})
                      = (IF JoinedRowsOf(p) > 0 THEN 1 ELSE 0)
            /\ \A row \in cc : row[2] = JoinedRowsOf(row[1]) /\ row[2] >= 1
            /\ RowCount([p \in IdValues |-> CountOfParent(cc, p)], IdValues)
                  = RowCount(dirdist_db.dirdist, NameKeys)
            /\ RowCount(dirdist_db.dirdist, NameKeys)
                  = RowCount([p \in IdValues |-> JoinedRowsOf(p)], IdValues)

\* A successful run over a directory with two children, a names row that
\* joins with nothing, and an entry that is nobody's parent.
C23_Witness ==
    /\ ScriptExited
    /\ status = 0
    /\ csv_file.exists
    /\ csv_file.rows = CountHistogram(dirdist_db.child_counts)
    /\ \E row \in dirdist_db.child_counts : row[2] = 2
    /\ \E k \in NameKeys : names[k] > 0 /\ dirdist_db.dirdist[k] = 0
    /\ \E d \in InodeIds :
          /\ entries[d] > 0
          /\ \A row \in dirdist_db.child_counts : row[1] # d

\* C29: once _dirdist.sqlite exists, a run that reaches the existence test
\* exits there with status 1 and writes no file; a run that fails in the
\* child_counts or in the histogram step leaves the file behind; and the
\* file stays until it is removed between two runs.
C29_NoResume ==
    /\ [][(Script /\ pc = "exists_check" /\ dirdist_db.exists) =>
             /\ pc' = "exit"
             /\ status' = 1
             /\ UNCHANGED <<dirdist_db, csv_file, sqlite3_calls>>]_vars
    /\ [][(Script /\ pc \in {"child_counts", "histogram"} /\ pc' = "exit")
             => dirdist_db'.exists]_vars
    /\ [][(Script /\ dirdist_db.exists /\ ~dirdist_db'.exists)
             => (pc = "exit" /\ pc' = "exit")]_vars

\* A second run that ended at the existence test over the file the first
\* run left when it failed after the join: no child_counts table, no
\* _hist.csv.
C29_Witness ==
    /\ ScriptExited
    /\ run = 2
    /\ status = 1
    /\ sqlite3_calls = 0
    /\ dirdist_db.exists
    /\ dirdist_db.tables = {"dirdist"}
    /\ RowCount(dirdist_db.dirdist, NameKeys) > 0
    /\ ~csv_file.exists

\* Every step of the run succeeded: dirdist is the join, child_counts its
\* grouping, and _hist.csv holds every row of the histogram.
EveryStepSucceeded ==
    /\ dirdist_db.exists
    /\ dirdist_db.tables = {"dirdist", "child_counts"}
    /\ dirdist_db.dirdist = InnerJoin(entries, names)
    /\ dirdist_db.child_counts = GroupByParent(dirdist_db.dirdist)
    /\ csv_file.exists
    /\ csv_file.rows = CountHistogram(dirdist_db.child_counts)

\* C30: the script exits with status 0 only if the join, the child_counts
\* aggregation and the histogram.py run all succeeded; a failing
\* histogram.py gives a non-zero exit status, not an empty or partial
\* _hist.csv behind status 0.
C30_ExitZeroOnlyOnSuccess ==
    (ScriptExited /\ status = 0) => EveryStepSucceeded

\* C30 for the two sqlite3 steps: status 0 is reached only with dirdist and
\* child_counts complete.
ExitZeroOnlyAfterSqlite ==
    (ScriptExited /\ status = 0) =>
        /\ sqlite3_calls = 2
        /\ dirdist_db.tables = {"dirdist", "child_counts"}
        /\ dirdist_db.dirdist = InnerJoin(entries, names)
        /\ dirdist_db.child_counts = GroupByParent(dirdist_db.dirdist)

====
